---- MODULE Spec2Model ----
(***************************************************************************)
(* Deterministic MVR hiring policy of src/main.py: normalize,              *)
(* count_uninspected_vehicle and decide_policy, applied by the UI handler  *)
(* to one extracted fact record.                                           *)
(*                                                                         *)
(* Python values are tagged: [type |-> <Python type name>, val |-> ...].   *)
(* A str is a tuple of one-character strings, so that re.sub, strip, lower *)
(* and the `in` substring test are computed character by character.  A     *)
(* dict is a function over its possible keys; a key the dict does not hold *)
(* maps to Absent.  The keys license_status and cdl_class of the record    *)
(* are never read by decide_policy and are left out.                       *)
(***************************************************************************)
EXTENDS Integers, Sequences, FiniteSets, TLC

VARIABLES extracted, pc, result, error

vars == <<extracted, pc, result, error>>

----------------------------------------------------------------------------
(* Bounds of the model *)

\* accident_count ranges over 0..MaxAccidents
MaxAccidents == 5
\* longest violations list drawn from SampleEntries
MaxViolations == 2
\* longest free-text description, in pieces of Pieces
MaxPieces == 4

----------------------------------------------------------------------------
(* Python values *)

Py(t, v) == [type |-> t, val |-> v]

PyNone == Py("NoneType", 0)
PyTrue == Py("bool", TRUE)
PyFalse == Py("bool", FALSE)
PyInt(n) == Py("int", n)
PyStr(cs) == Py("str", cs)
PyList(xs) == Py("list", xs)
PyDict(f) == Py("dict", f)
\* marks a key that a dict does not hold; never a value the code sees
Absent == Py("absent", 0)

\* dict.get(key): None for a missing key
DictGet(d, key) == IF d[key].type = "absent" THEN PyNone ELSE d[key]

\* dict.get(key, default)
DictGetDefault(d, key, default) == IF d[key].type = "absent" THEN default ELSE d[key]

\* bool(x), as used by `x or y`
Truthy(x) ==
    CASE x.type = "NoneType" -> FALSE
      [] x.type = "bool" -> x.val
      [] x.type = "int" -> x.val # 0
      [] x.type = "str" -> Len(x.val) > 0
      [] x.type = "list" -> Len(x.val) > 0
      [] x.type = "dict" -> \E k \in DOMAIN x.val : x.val[k].type # "absent"

\* x or y
PyOr(x, y) == IF Truthy(x) THEN x ELSE y

\* `if x:` in place of `if x is True:`
IsTrue_Truthy(x) == Truthy(x)

\* x is True
IsTrue(x) == x.type = "bool" /\ x.val = TRUE

----------------------------------------------------------------------------
(* Strings *)

UpperCase == <<"A", "B", "C", "D", "E", "F", "G", "H", "I", "J", "K", "L", "M",
               "N", "O", "P", "Q", "R", "S", "T", "U", "V", "W", "X", "Y", "Z">>
LowerCase == <<"a", "b", "c", "d", "e", "f", "g", "h", "i", "j", "k", "l", "m",
               "n", "o", "p", "q", "r", "s", "t", "u", "v", "w", "x", "y", "z">>
Digits == <<"0", "1", "2", "3", "4", "5", "6", "7", "8", "9">>

\* the characters \s matches and str.strip removes
Whitespace == {" ", "\t", "\n", "\r", "\f"}

\* str.lower on one character
LowerChar(c) ==
    IF \E i \in 1..26 : UpperCase[i] = c
    THEN LowerCase[CHOOSE i \in 1..26 : UpperCase[i] = c]
    ELSE c

\* str.lower
Lower(cs) == [i \in 1..Len(cs) |-> LowerChar(cs[i])]

\* re.sub(r"\s+", " ", cs): every maximal run of whitespace becomes one space
RECURSIVE CollapseFrom(_, _)
CollapseFrom(cs, i) ==
    IF i > Len(cs) THEN <<>>
    ELSE IF cs[i] \in Whitespace
         THEN IF i > 1 /\ cs[i - 1] \in Whitespace
              THEN CollapseFrom(cs, i + 1)
              ELSE <<" ">> \o CollapseFrom(cs, i + 1)
         ELSE <<cs[i]>> \o CollapseFrom(cs, i + 1)

ReSubWhitespace(cs) == CollapseFrom(cs, 1)

\* str.strip
RECURSIVE LStrip(_)
LStrip(cs) ==
    IF cs # <<>> /\ Head(cs) \in Whitespace THEN LStrip(Tail(cs)) ELSE cs

RECURSIVE RStrip(_)
RStrip(cs) ==
    IF cs # <<>> /\ cs[Len(cs)] \in Whitespace
    THEN RStrip(SubSeq(cs, 1, Len(cs) - 1))
    ELSE cs

Strip(cs) == RStrip(LStrip(cs))

\* needle in hay
Contains(hay, needle) ==
    \E i \in 0..(Len(hay) - Len(needle)) :
        \A j \in 1..Len(needle) : hay[i + j] = needle[j]

\* the two literals of the `in` tests
OperateUninspectedVehicle ==
    <<"o", "p", "e", "r", "a", "t", "e", " ",
      "u", "n", "i", "n", "s", "p", "e", "c", "t", "e", "d", " ",
      "v", "e", "h", "i", "c", "l", "e">>
UninspectedVehicle ==
    <<"u", "n", "i", "n", "s", "p", "e", "c", "t", "e", "d", " ",
      "v", "e", "h", "i", "c", "l", "e">>

\* normalize without .lower()
normalize_NoLower(s) ==
    Strip(ReSubWhitespace(PyOr(s, PyStr(<<>>)).val))

\* normalize(s) for s a str or None; s or "" is s itself when s is truthy
normalize(s) ==
    Lower(Strip(ReSubWhitespace(PyOr(s, PyStr(<<>>)).val)))

\* normalize raises when s is truthy and no str (re.sub wants a str)
normalize_raises(s) == Truthy(s) /\ s.type # "str"

----------------------------------------------------------------------------
(* count_uninspected_vehicle *)

\* the test of line 111 on one entry's description
EntryMatches(v) ==
    LET desc == normalize(DictGetDefault(v.val, "description", PyStr(<<>>)))
    IN  Contains(desc, OperateUninspectedVehicle) \/ Contains(desc, UninspectedVehicle)

\* the exception the loop body raises on entry v, "none" when it raises none:
\* v.get needs a dict, normalize needs a str or a falsy value
EntryRaises(v) ==
    IF v.type # "dict" THEN "AttributeError"
    ELSE IF normalize_raises(DictGetDefault(v.val, "description", PyStr(<<>>)))
         THEN "TypeError"
         ELSE "none"

RECURSIVE CountFrom(_, _)
CountFrom(vs, i) ==
    IF i > Len(vs) THEN 0
    ELSE (IF EntryMatches(vs[i]) THEN 1 ELSE 0) + CountFrom(vs, i + 1)

\* violations or []
ViolationsOrEmpty(violations) == PyOr(violations, PyList(<<>>))

count_uninspected_vehicle(violations) ==
    CountFrom(ViolationsOrEmpty(violations).val, 1)

RECURSIVE RaisesFrom(_, _)
RaisesFrom(vs, i) ==
    IF i > Len(vs) THEN "none"
    ELSE IF EntryRaises(vs[i]) # "none" THEN EntryRaises(vs[i])
         ELSE RaisesFrom(vs, i + 1)

\* the exception count_uninspected_vehicle raises, "none" when it returns:
\* the for loop needs an iterable (the items of a str or the keys of a dict
\* have no get), then the first entry that raises decides
count_uninspected_vehicle_raises(violations) ==
    LET it == ViolationsOrEmpty(violations)
    IN  CASE it.type = "list" -> RaisesFrom(it.val, 1)
          [] it.type \in {"int", "bool"} -> "TypeError"
          [] OTHER -> "AttributeError"

----------------------------------------------------------------------------
(* decide_policy *)

MajorKeys ==
    {"speeding_over_15", "tailgating_following_too_closely", "texting_handheld_phone",
     "reckless_careless", "dui_dwi_alcohol_drugs", "hit_and_run", "felony_conviction",
     "refused_test", "failed_dot_drug_test_no_sap", "license_suspended_not_reinstated"}

major_map ==
    << <<"speeding_over_15", "SPEEDING_OVER_15">>,
       <<"tailgating_following_too_closely", "FOLLOWING_TOO_CLOSELY">>,
       <<"texting_handheld_phone", "TEXTING_HANDHELD_PHONE">>,
       <<"reckless_careless", "RECKLESS_CARELESS">>,
       <<"dui_dwi_alcohol_drugs", "DUI_DWI">>,
       <<"hit_and_run", "HIT_AND_RUN">>,
       <<"felony_conviction", "FELONY_CONVICTION">>,
       <<"refused_test", "REFUSED_TEST">>,
       <<"failed_dot_drug_test_no_sap", "FAILED_DOT_DRUG_TEST_NO_SAP">> >>

EmptyDict == PyDict([k \in MajorKeys |-> Absent])

\* mi = extracted.get("major_indicators", {}) or {}
MajorIndicators(e) ==
    PyOr(DictGetDefault(e, "major_indicators", EmptyDict), EmptyDict)

\* int(x) for the values the model draws: an int, a bool, a str of digits
RECURSIVE DigitsValue(_)
DigitsValue(cs) ==
    IF cs = <<>> THEN 0
    ELSE 10 * DigitsValue(SubSeq(cs, 1, Len(cs) - 1))
         + (CHOOSE d \in 0..9 : Digits[d + 1] = cs[Len(cs)])

PyIntOf(x) ==
    CASE x.type = "int" -> x.val
      [] x.type = "bool" -> IF x.val THEN 1 ELSE 0
      [] x.type = "str" -> DigitsValue(x.val)

\* the exception int(x) raises, "none" when it returns
PyIntRaises(x) ==
    CASE x.type \in {"int", "bool"} -> "none"
      [] x.type = "str" ->
            IF x.val # <<>> /\ \A i \in 1..Len(x.val) : \E d \in 1..10 : Digits[d] = x.val[i]
            THEN "none" ELSE "ValueError"
      [] OTHER -> "TypeError"

\* extracted.get("accident_count") without `or 0`
AccidentArg_NoDefault(e) == DictGet(e, "accident_count")

\* extracted.get("accident_count") or 0
AccidentArg(e) == PyOr(DictGet(e, "accident_count"), PyInt(0))

\* accident_count = int(extracted.get("accident_count") or 0)
AccidentCount(e) == PyIntOf(AccidentArg(e))

\* accident_count > 2
AccidentsTrigger_Above2(accident_count) == accident_count > 2

\* accident_count >= 2
AccidentsTrigger(accident_count) == accident_count >= 2

\* uninspected_count >= 0
UninspectedTrigger_AtLeast0(uninspected_count) == uninspected_count >= 0

\* uninspected_count >= 2
UninspectedTrigger(uninspected_count) == uninspected_count >= 2

\* the code point of a character of a flag code
OrdTable ==
    [c \in {"_"} |-> 95]
    @@ [c \in {Digits[i] : i \in 1..10} |-> 47 + CHOOSE i \in 1..10 : Digits[i] = c]
    @@ [c \in {UpperCase[i] : i \in 1..26} |-> 64 + CHOOSE i \in 1..26 : UpperCase[i] = c]

\* the spelling of every flag code the policy appends
Spell ==
    [f \in {"INSUFFICIENT_DATA"} |-> <<"I","N","S","U","F","F","I","C","I","E","N","T","_","D","A","T","A">>]
    @@ [f \in {"EXPIRED_MEDICAL"} |-> <<"E","X","P","I","R","E","D","_","M","E","D","I","C","A","L">>]
    @@ [f \in {"MISSING_ENDORSEMENTS"} |-> <<"M","I","S","S","I","N","G","_","E","N","D","O","R","S","E","M","E","N","T","S">>]
    @@ [f \in {"LICENSE_SUSPENDED"} |-> <<"L","I","C","E","N","S","E","_","S","U","S","P","E","N","D","E","D">>]
    @@ [f \in {"SPEEDING_OVER_15"} |-> <<"S","P","E","E","D","I","N","G","_","O","V","E","R","_","1","5">>]
    @@ [f \in {"FOLLOWING_TOO_CLOSELY"} |-> <<"F","O","L","L","O","W","I","N","G","_","T","O","O","_","C","L","O","S","E","L","Y">>]
    @@ [f \in {"TEXTING_HANDHELD_PHONE"} |-> <<"T","E","X","T","I","N","G","_","H","A","N","D","H","E","L","D","_","P","H","O","N","E">>]
    @@ [f \in {"RECKLESS_CARELESS"} |-> <<"R","E","C","K","L","E","S","S","_","C","A","R","E","L","E","S","S">>]
    @@ [f \in {"DUI_DWI"} |-> <<"D","U","I","_","D","W","I">>]
    @@ [f \in {"HIT_AND_RUN"} |-> <<"H","I","T","_","A","N","D","_","R","U","N">>]
    @@ [f \in {"FELONY_CONVICTION"} |-> <<"F","E","L","O","N","Y","_","C","O","N","V","I","C","T","I","O","N">>]
    @@ [f \in {"REFUSED_TEST"} |-> <<"R","E","F","U","S","E","D","_","T","E","S","T">>]
    @@ [f \in {"FAILED_DOT_DRUG_TEST_NO_SAP"} |-> <<"F","A","I","L","E","D","_","D","O","T","_","D","R","U","G","_","T","E","S","T","_","N","O","_","S","A","P">>]
    @@ [f \in {"ACCIDENTS_2_PLUS"} |-> <<"A","C","C","I","D","E","N","T","S","_","2","_","P","L","U","S">>]
    @@ [f \in {"UNINSPECTED_VEHICLE_2_PLUS"} |-> <<"U","N","I","N","S","P","E","C","T","E","D","_","V","E","H","I","C","L","E","_","2","_","P","L","U","S">>]

\* a < b for two str, as sorted compares them: by code point, a proper prefix first
RECURSIVE LexLess(_, _)
LexLess(a, b) ==
    IF b = <<>> THEN FALSE
    ELSE IF a = <<>> THEN TRUE
    ELSE IF OrdTable[Head(a)] # OrdTable[Head(b)] THEN OrdTable[Head(a)] < OrdTable[Head(b)]
    ELSE LexLess(Tail(a), Tail(b))

\* the pairs f < g of flag codes
StrLessPairs ==
    {p \in (DOMAIN Spell) \X (DOMAIN Spell) : LexLess(Spell[p[1]], Spell[p[2]])}

StrLess(f, g) == <<f, g>> \in StrLessPairs

\* set(flags)
SetOf(xs) == {xs[i] : i \in 1..Len(xs)}

\* list(S) left unsorted: here the greatest element first
RECURSIVE SortedList_Descending(_)
SortedList_Descending(S) ==
    IF S = {} THEN <<>>
    ELSE LET greatest == CHOOSE x \in S : \A y \in S \ {x} : StrLess(y, x)
         IN  <<greatest>> \o SortedList_Descending(S \ {greatest})

\* sorted(list(S)): the least element first
RECURSIVE SortedList(_)
SortedList(S) ==
    IF S = {} THEN <<>>
    ELSE LET least == CHOOSE x \in S : \A y \in S \ {x} : StrLess(x, y)
         IN  <<least>> \o SortedList(S \ {least})

\* ", ".join(reasons)
RECURSIVE Join_Comma(_, _)
Join_Comma(sep, xs) ==
    IF xs = <<>> THEN ""
    ELSE IF Len(xs) = 1 THEN xs[1]
    ELSE xs[1] \o ", " \o Join_Comma(sep, Tail(xs))

\* " | ".join(reasons)
RECURSIVE Join(_, _)
Join(sep, xs) ==
    IF xs = <<>> THEN ""
    ELSE IF Len(xs) = 1 THEN xs[1]
    ELSE xs[1] \o sep \o Join(sep, Tail(xs))

\* reasons.append(reason) alone: the flag is forgotten
AppendIf_NoFlag(acc, cond, flag, reason) ==
    IF cond THEN [acc EXCEPT !.reasons = Append(acc.reasons, reason)] ELSE acc

\* flags.append(flag); reasons.append(reason) when cond holds
AppendIf(acc, cond, flag, reason) ==
    IF cond
    THEN [flags |-> Append(acc.flags, flag), reasons |-> Append(acc.reasons, reason)]
    ELSE acc

\* the loop over major_map with a break after the first indicator found
RECURSIVE MajorLoop_Break(_, _, _)
MajorLoop_Break(acc, mi, i) ==
    IF i > Len(major_map) THEN acc
    ELSE IF IsTrue(DictGet(mi.val, major_map[i][1]))
         THEN AppendIf(acc, TRUE, major_map[i][2],
                       "Major violation indicator: " \o major_map[i][2] \o ".")
         ELSE MajorLoop_Break(acc, mi, i + 1)

\* the body of the loop over major_map, entries i.. of it
RECURSIVE MajorLoop(_, _, _)
MajorLoop(acc, mi, i) ==
    IF i > Len(major_map) THEN acc
    ELSE MajorLoop(
            AppendIf(acc, IsTrue(DictGet(mi.val, major_map[i][1])), major_map[i][2],
                     "Major violation indicator: " \o major_map[i][2] \o "."),
            mi, i + 1)

\* flags and reasons as they stand at line 172
Triggers(e) ==
    LET mi == MajorIndicators(e)
        accident_count == AccidentCount(e)
        uninspected_count == count_uninspected_vehicle(DictGet(e, "violations"))
        a0 == [flags |-> <<>>, reasons |-> <<>>]
        a1 == AppendIf(a0, IsTrue(DictGet(e, "medical_cert_expired")),
                       "EXPIRED_MEDICAL", "Expired medical certificate.")
        a2 == AppendIf(a1, IsTrue(DictGet(e, "missing_cdl_endorsements")),
                       "MISSING_ENDORSEMENTS", "Missing required CDL endorsements.")
        a3 == AppendIf(a2, IsTrue(DictGet(mi.val, "license_suspended_not_reinstated")),
                       "LICENSE_SUSPENDED", "License suspended (not reinstated).")
        a4 == MajorLoop(a3, mi, 1)
        a5 == AppendIf(a4, AccidentsTrigger(accident_count), "ACCIDENTS_2_PLUS",
                       "Accident count is " \o ToString(accident_count) \o " (>=2).")
        a6 == AppendIf(a5, UninspectedTrigger(uninspected_count), "UNINSPECTED_VEHICLE_2_PLUS",
                       "Operate uninspected vehicle count is "
                           \o ToString(uninspected_count) \o " (>=2).")
    IN  a6

\* the dict returned for an unreadable PDF
UnreadableResult ==
    [decision |-> "REJECT",
     reason |-> "PDF unreadable / insufficient data.",
     flags |-> <<"INSUFFICIENT_DATA">>]

\* the final decision on the flags and reasons t
FinalDecision(t) ==
    IF t.reasons # <<>>
    THEN [decision |-> "REJECT",
          reason |-> Join(" | ", t.reasons),
          flags |-> SortedList(SetOf(t.flags))]
    ELSE [decision |-> "ACCEPT",
          reason |-> "No reject triggers found under current policy.",
          flags |-> <<>>]

\* the unreadable check placed after the medical check, whose flag then leaks
decide_policy_MedicalFirst(e) ==
    IF IsTrue(DictGet(e, "unreadable_pdf"))
    THEN IF IsTrue(DictGet(e, "medical_cert_expired"))
         THEN [UnreadableResult EXCEPT !.flags = <<"EXPIRED_MEDICAL", "INSUFFICIENT_DATA">>]
         ELSE UnreadableResult
    ELSE FinalDecision(Triggers(e))

\* the dict decide_policy returns, when it returns
decide_policy(e) ==
    IF IsTrue(DictGet(e, "unreadable_pdf"))
    THEN UnreadableResult
    ELSE FinalDecision(Triggers(e))

\* the exception decide_policy raises, "none" when it returns: mi.get needs a
\* dict (line 138), then int() (line 161), then count_uninspected_vehicle (line 167)
decide_policy_raises(e) ==
    IF IsTrue(DictGet(e, "unreadable_pdf")) THEN "none"
    ELSE IF MajorIndicators(e).type # "dict" THEN "AttributeError"
    ELSE IF PyIntRaises(AccidentArg(e)) # "none" THEN PyIntRaises(AccidentArg(e))
    ELSE count_uninspected_vehicle_raises(DictGet(e, "violations"))

----------------------------------------------------------------------------
(* The fact records the extractor may hand over *)

\* a violations entry with this description
Entry(description) == PyDict([description |-> description])

\* descriptions as MVRs phrase them
OperateUninspectedVehicleText ==
    <<"O", "p", "e", "r", "a", "t", "e", " ", "U", "n", "i", "n", "s", "p", "e", "c", "t", "e", "d", " ", "V", "e", "h", "i", "c", "l", "e">>
OperateSpacedText ==
    <<"o", "p", "e", "r", "a", "t", "e", " ", " ", " ", "u", "n", "i", "n", "s", "p", "e", "c", "t", "e", "d", " ", "v", "e", "h", "i", "c", "l", "e">>
UninspectedCdlText ==
    <<"U", "N", "I", "N", "S", "P", "E", "C", "T", "E", "D", " ", "V", "E", "H", "I", "C", "L", "E", " ", "-", " ", "C", "D", "L">>
PaddedText ==
    <<" ", "\t", "U", "n", "i", "n", "s", "p", "e", "c", "t", "e", "d", " ", "\n", " ", "V", "E", "H", "I", "C", "L", "E", "\r", "\n">>
SpeedingText ==
    <<"S", "p", "e", "e", "d", "i", "n", "g", " ", "2", "0", " ", "o", "v", "e", "r">>
JoinedText ==
    <<"u", "n", "i", "n", "s", "p", "e", "c", "t", "e", "d", "v", "e", "h", "i", "c", "l", "e">>
ReversedText ==
    <<"v", "e", "h", "i", "c", "l", "e", " ", "u", "n", "i", "n", "s", "p", "e", "c", "t", "e", "d">>

SampleEntries ==
    {Entry(PyStr(OperateUninspectedVehicleText)), Entry(PyStr(OperateSpacedText)),
     Entry(PyStr(UninspectedCdlText)), Entry(PyStr(PaddedText)),
     Entry(PyStr(SpeedingText)), Entry(PyStr(JoinedText)),
     Entry(PyStr(ReversedText)), Entry(Absent)}

\* entries of a record that does not keep the schema
LooseEntries ==
    {Entry(Absent), Entry(PyNone), Entry(PyStr(<<>>)), Entry(PyInt(5)), PyNone,
     Entry(PyStr(UninspectedCdlText))}

\* the pieces free-text descriptions are put together from
Pieces ==
    {<<"U", "n", "i", "n", "s", "p", "e", "c", "t", "e", "d">>, <<"V", "E", "H", "I", "C", "L", "E">>, <<" ">>, <<"\t", "\n">>,
     <<"x", "1">>}

RECURSIVE Concat(_)
Concat(ps) == IF ps = <<>> THEN <<>> ELSE Head(ps) \o Concat(Tail(ps))

SeqsUpTo(S, n) == UNION {[1..m -> S] : m \in 0..n}

Texts == {Concat(ps) : ps \in SeqsUpTo(Pieces, MaxPieces)}

\* a record of the six keys decide_policy reads
Record(u, m, c, mi, n, vs) ==
    [unreadable_pdf |-> u, medical_cert_expired |-> m, missing_cdl_endorsements |-> c,
     major_indicators |-> mi, accident_count |-> n, violations |-> vs]

\* major_indicators with exactly the keys of S true
Indicators(S) == PyDict([k \in MajorKeys |-> IF k \in S THEN PyTrue ELSE PyFalse])

Bools == {PyTrue, PyFalse}

\* what a boolean field holds when the record does not keep the schema
LooseBools == {PyTrue, PyFalse, PyNone, Absent, PyInt(1), PyStr(<<"t", "r", "u", "e">>)}

LooseIndicators ==
    {Absent, PyNone, EmptyDict, Indicators({}), PyList(<<PyStr(<<"d", "u", "i">>)>>)}
    \cup {PyDict([Indicators({}).val EXCEPT ![k] = v]) :
            k \in MajorKeys, v \in {PyNone, Absent, PyInt(1)}}

LooseCounts ==
    {Absent, PyNone, PyInt(-1), PyInt(0), PyInt(1), PyInt(2), PyTrue, PyStr(<<>>),
     PyStr(<<"2">>), PyStr(<<"1", "2">>), PyStr(<<"t", "w", "o">>), PyList(<<PyInt(2)>>)}

LooseViolations ==
    {Absent, PyNone, PyInt(7)} \cup {PyList(vs) : vs \in SeqsUpTo(LooseEntries, MaxViolations)}

\* records that keep the schema of EXTRACTION_JSON_SCHEMA: every combination of
\* the thirteen booleans, the accident count on either side of the threshold
InitSchema ==
    \E u \in Bools, m \in Bools, c \in Bools, S \in SUBSET MajorKeys,
       n \in 1..2,
       vs \in {<<>>, <<Entry(PyStr(OperateUninspectedVehicleText)),
                      Entry(PyStr(UninspectedCdlText))>>} :
        extracted = Record(u, m, c, Indicators(S), PyInt(n), PyList(vs))

\* records whose counts and violations vary: every accident count with every
\* list of sample entries, and one free-text entry alone or before a matching one
InitViolations ==
    \/ \E vs \in SeqsUpTo(SampleEntries, MaxViolations), n \in 0..MaxAccidents :
        extracted = Record(PyFalse, PyFalse, PyFalse, Indicators({}), PyInt(n), PyList(vs))
    \/ \E t \in Texts, w \in {<<>>, <<Entry(PyStr(OperateSpacedText))>>} :
        extracted = Record(PyFalse, PyFalse, PyFalse, Indicators({}), PyInt(0),
                           PyList(<<Entry(PyStr(t))>> \o w))

\* records with missing, null or ill-typed booleans
InitLooseBools ==
    \E u \in LooseBools, m \in LooseBools, c \in LooseBools, mi \in LooseIndicators :
        extracted = Record(u, m, c, mi, PyInt(0), PyList(<<>>))

\* records with missing, null or ill-typed counts and sequences
InitLooseShapes ==
    \E u \in {PyTrue, PyFalse, PyNone, Absent}, m \in {PyFalse, Absent},
       mi \in {Absent, PyNone, EmptyDict, Indicators({}), PyList(<<PyStr(<<"d", "u", "i">>)>>)},
       n \in LooseCounts, vs \in LooseViolations :
        extracted = Record(u, m, PyFalse, mi, n, vs)

NoResult == [decision |-> "", reason |-> "", flags |-> <<>>]

Init ==
    /\ InitSchema \/ InitViolations \/ InitLooseBools \/ InitLooseShapes
    /\ pc = "extracted"
    /\ result = NoResult
    /\ error = "none"

----------------------------------------------------------------------------
(* The handler of the button: result = decide_policy(extracted) *)

\* decide_policy returns; decision, reason and flags are shown
DecideReturns ==
    /\ pc = "extracted"
    /\ decide_policy_raises(extracted) = "none"
    /\ result' = decide_policy(extracted)
    /\ pc' = "shown"
    /\ UNCHANGED <<extracted, error>>

\* decide_policy raises; the except branch shows the exception
DecideRaises ==
    /\ pc = "extracted"
    /\ decide_policy_raises(extracted) # "none"
    /\ error' = decide_policy_raises(extracted)
    /\ pc' = "failed"
    /\ UNCHANGED <<extracted, result>>

Next == DecideReturns \/ DecideRaises

Spec == Init /\ [][Next]_vars

----------------------------------------------------------------------------
(* What the specification says of a record, stated on the record itself *)

\* the field holds the boolean true
FieldTrue(v) == v.type = "bool" /\ v.val = TRUE

\* the field holds the boolean false
FieldFalse(v) == v.type = "bool" /\ v.val = FALSE

\* the field is absent or null
FieldMissing(v) == v.type \in {"absent", "NoneType"}

Unreadable == FieldTrue(extracted.unreadable_pdf)

\* the major indicator under key k, Absent when there is no mapping
Indicator(k) ==
    IF extracted.major_indicators.type = "dict"
    THEN extracted.major_indicators.val[k]
    ELSE Absent

\* the 15 flag codes, in ascending order
SortedVocabulary ==
    <<"ACCIDENTS_2_PLUS", "DUI_DWI", "EXPIRED_MEDICAL", "FAILED_DOT_DRUG_TEST_NO_SAP",
      "FELONY_CONVICTION", "FOLLOWING_TOO_CLOSELY", "HIT_AND_RUN", "INSUFFICIENT_DATA",
      "LICENSE_SUSPENDED", "MISSING_ENDORSEMENTS", "RECKLESS_CARELESS", "REFUSED_TEST",
      "SPEEDING_OVER_15", "TEXTING_HANDHELD_PHONE", "UNINSPECTED_VEHICLE_2_PLUS">>

Vocabulary == {SortedVocabulary[i] : i \in 1..Len(SortedVocabulary)}

Position(f) == CHOOSE i \in 1..Len(SortedVocabulary) : SortedVocabulary[i] = f

\* the rules after the unreadable check, in evaluation order
RuleOrder ==
    <<"EXPIRED_MEDICAL", "MISSING_ENDORSEMENTS", "LICENSE_SUSPENDED", "SPEEDING_OVER_15",
      "FOLLOWING_TOO_CLOSELY", "TEXTING_HANDHELD_PHONE", "RECKLESS_CARELESS", "DUI_DWI",
      "HIT_AND_RUN", "FELONY_CONVICTION", "REFUSED_TEST", "FAILED_DOT_DRUG_TEST_NO_SAP",
      "ACCIDENTS_2_PLUS", "UNINSPECTED_VEHICLE_2_PLUS">>

Rules == {RuleOrder[i] : i \in 1..Len(RuleOrder)}

\* the indicator each indicator flag reports
KeyOfFlag ==
    [f \in {"LICENSE_SUSPENDED"} |-> "license_suspended_not_reinstated"]
    @@ [f \in {"SPEEDING_OVER_15"} |-> "speeding_over_15"]
    @@ [f \in {"FOLLOWING_TOO_CLOSELY"} |-> "tailgating_following_too_closely"]
    @@ [f \in {"TEXTING_HANDHELD_PHONE"} |-> "texting_handheld_phone"]
    @@ [f \in {"RECKLESS_CARELESS"} |-> "reckless_careless"]
    @@ [f \in {"DUI_DWI"} |-> "dui_dwi_alcohol_drugs"]
    @@ [f \in {"HIT_AND_RUN"} |-> "hit_and_run"]
    @@ [f \in {"FELONY_CONVICTION"} |-> "felony_conviction"]
    @@ [f \in {"REFUSED_TEST"} |-> "refused_test"]
    @@ [f \in {"FAILED_DOT_DRUG_TEST_NO_SAP"} |-> "failed_dot_drug_test_no_sap"]

\* accident_count is an integer, absent or null
CountDeclared == extracted.accident_count.type \in {"int", "absent", "NoneType"}

\* the accident count of such a record, 0 when absent or null
DeclaredCount ==
    IF extracted.accident_count.type = "int" THEN extracted.accident_count.val ELSE 0

\* the violation entries, none when the sequence is absent or null
Entries == IF extracted.violations.type = "list" THEN extracted.violations.val ELSE <<>>

\* the description of an entry, empty when it is absent or null
EntryText(v) ==
    IF v.type = "dict" /\ v.val.description.type = "str" THEN v.val.description.val ELSE <<>>

WordUninspected == <<"u", "n", "i", "n", "s", "p", "e", "c", "t", "e", "d">>
WordVehicle == <<"v", "e", "h", "i", "c", "l", "e">>

\* d holds the word w at position i, in any casing
WordAt(d, i, w) ==
    /\ i + Len(w) - 1 <= Len(d)
    /\ \A j \in 1..Len(w) :
        \E n \in 1..26 : LowerCase[n] = w[j] /\ d[i + j - 1] \in {LowerCase[n], UpperCase[n]}

\* d holds "uninspected", one or more whitespace characters, "vehicle", in any casing
PhraseIn(d) ==
    \E i \in 1..Len(d), g \in 1..Len(d) :
        /\ WordAt(d, i, WordUninspected)
        /\ i + Len(WordUninspected) + g - 1 <= Len(d)
        /\ \A j \in 0..(g - 1) : d[i + Len(WordUninspected) + j] \in Whitespace
        /\ WordAt(d, i + Len(WordUninspected) + g, WordVehicle)

\* the entries whose description holds the phrase
MatchingEntries == {i \in 1..Len(Entries) : PhraseIn(EntryText(Entries[i]))}

MatchCount == Cardinality(MatchingEntries)

\* the rule of flag f triggers on the record
RuleTriggered(f) ==
    CASE f = "EXPIRED_MEDICAL" -> FieldTrue(extracted.medical_cert_expired)
      [] f = "MISSING_ENDORSEMENTS" -> FieldTrue(extracted.missing_cdl_endorsements)
      [] f = "ACCIDENTS_2_PLUS" -> DeclaredCount >= 2
      [] f = "UNINSPECTED_VEHICLE_2_PLUS" -> MatchCount >= 2
      [] OTHER -> FieldTrue(Indicator(KeyOfFlag[f]))

\* the reason clause of the rule of flag f
ClauseOf(f) ==
    CASE f = "EXPIRED_MEDICAL" -> "Expired medical certificate."
      [] f = "MISSING_ENDORSEMENTS" -> "Missing required CDL endorsements."
      [] f = "LICENSE_SUSPENDED" -> "License suspended (not reinstated)."
      [] f = "ACCIDENTS_2_PLUS" -> "Accident count is " \o ToString(DeclaredCount) \o " (>=2)."
      [] f = "UNINSPECTED_VEHICLE_2_PLUS" ->
            "Operate uninspected vehicle count is " \o ToString(MatchCount) \o " (>=2)."
      [] OTHER -> "Major violation indicator: " \o f \o "."

\* the triggered rules, in evaluation order
TriggeredInOrder == SelectSeq(RuleOrder, RuleTriggered)

\* clauses cs[i..] with " | " between them
RECURSIVE ClausesFrom(_, _)
ClausesFrom(fs, i) ==
    IF i > Len(fs) THEN ""
    ELSE IF i = Len(fs) THEN ClauseOf(fs[i])
    ELSE ClauseOf(fs[i]) \o " | " \o ClausesFrom(fs, i + 1)

FlagSet == {result.flags[i] : i \in 1..Len(result.flags)}

\* how often flag f stands in the flags of the result
Occurrences(f) == Cardinality({i \in 1..Len(result.flags) : result.flags[i] = f})

----------------------------------------------------------------------------
(* Properties *)

\* C1: a record whose unreadable_pdf is true is decided without an exception and
\* its result is exactly REJECT, the fixed reason and the single flag
\* INSUFFICIENT_DATA, whatever the other fields hold.
C1_UnreadableShortCircuit ==
    (pc # "extracted" /\ Unreadable) =>
        /\ pc = "shown"
        /\ error = "none"
        /\ result = [decision |-> "REJECT",
                     reason |-> "PDF unreadable / insufficient data.",
                     flags |-> <<"INSUFFICIENT_DATA">>]

\* an unreadable record on which four other rules would trigger has been decided
C1_Witness ==
    /\ pc = "shown"
    /\ Unreadable
    /\ FieldTrue(extracted.medical_cert_expired)
    /\ FieldTrue(Indicator("dui_dwi_alcohol_drugs"))
    /\ DeclaredCount >= 2
    /\ MatchCount >= 2
    /\ result.flags = <<"INSUFFICIENT_DATA">>

\* C2: the flags of a result are empty if and only if its decision is ACCEPT.
C2_FlagsEmptyIffAccept ==
    pc = "shown" => (result.flags = <<>> <=> result.decision = "ACCEPT")

\* a REJECT that rests on one threshold rule alone
C2_Witness ==
    /\ pc = "shown"
    /\ result.decision = "REJECT"
    /\ result.flags = <<"UNINSPECTED_VEHICLE_2_PLUS">>

\* every boolean false, no accident, no violation
CleanRecord ==
    /\ FieldFalse(extracted.unreadable_pdf)
    /\ FieldFalse(extracted.medical_cert_expired)
    /\ FieldFalse(extracted.missing_cdl_endorsements)
    /\ \A k \in MajorKeys : FieldFalse(Indicator(k))
    /\ extracted.accident_count.type = "int" /\ extracted.accident_count.val = 0
    /\ extracted.violations.type = "list" /\ extracted.violations.val = <<>>

\* C3: the clean record is decided ACCEPT with no flag and the fixed reason.
C3_CleanRecordAccepted ==
    (pc # "extracted" /\ CleanRecord) =>
        /\ pc = "shown"
        /\ result = [decision |-> "ACCEPT",
                     reason |-> "No reject triggers found under current policy.",
                     flags |-> <<>>]

\* the clean record has been decided
C3_Witness == pc = "shown" /\ CleanRecord /\ result.decision = "ACCEPT"

\* the record with major indicator k set to true, all else as it is
Flipped(k) ==
    [extracted EXCEPT !.major_indicators =
        PyDict([extracted.major_indicators.val EXCEPT ![k] = PyTrue])]

\* C4: turning one false major indicator of a decided, readable record to true
\* gives a record decided REJECT whose flags include every flag of the result.
C4_IndicatorMonotone ==
    (pc = "shown" /\ ~Unreadable /\ extracted.major_indicators.type = "dict") =>
        \A k \in MajorKeys :
            FieldFalse(Indicator(k)) =>
                LET after == decide_policy(Flipped(k))
                IN  /\ decide_policy_raises(Flipped(k)) = "none"
                    /\ after.decision = "REJECT"
                    /\ FlagSet \subseteq SetOf(after.flags)

\* a decided record with two flags, one of a later indicator, whose first
\* indicator is still false and adds a third flag when turned to true
C4_Witness ==
    /\ pc = "shown"
    /\ ~Unreadable
    /\ FlagSet = {"EXPIRED_MEDICAL", "HIT_AND_RUN"}
    /\ FieldFalse(Indicator("speeding_over_15"))
    /\ SetOf(decide_policy(Flipped("speeding_over_15")).flags)
         = {"EXPIRED_MEDICAL", "HIT_AND_RUN", "SPEEDING_OVER_15"}

\* the clause the accident rule appends
AccidentClause == "Accident count is " \o ToString(DeclaredCount) \o " (>=2)."

\* C5: on a readable record ACCIDENTS_2_PLUS is flagged if and only if the
\* accident count is 2 or more, never twice, with one clause naming the count.
C5_AccidentThreshold ==
    (pc = "shown" /\ ~Unreadable /\ CountDeclared) =>
        /\ "ACCIDENTS_2_PLUS" \in FlagSet <=> DeclaredCount >= 2
        /\ Occurrences("ACCIDENTS_2_PLUS") <= 1
        /\ LET reasons == Triggers(extracted).reasons
               named == {i \in 1..Len(reasons) : reasons[i] = AccidentClause}
           IN  /\ Cardinality(named) = (IF DeclaredCount >= 2 THEN 1 ELSE 0)
               /\ FlagSet = {"ACCIDENTS_2_PLUS"} => result.reason = AccidentClause

\* five accidents, flagged once
C5_Witness ==
    /\ pc = "shown"
    /\ ~Unreadable
    /\ extracted.accident_count.type = "int" /\ extracted.accident_count.val = 5
    /\ Occurrences("ACCIDENTS_2_PLUS") = 1
    /\ result.reason = "Accident count is 5 (>=2)."

\* a is the lower-case form of b
LowerOf(a, b) ==
    /\ \A n \in 1..26 : a # UpperCase[n]
    /\ a = b \/ \E n \in 1..26 : a = LowerCase[n] /\ b = UpperCase[n]

NonBlank(c) == c \notin Whitespace

\* n is d with whitespace runs collapsed to one space, trimmed and lower-cased
NormalisedFrom(n, d) ==
    /\ \A j \in 1..Len(n) : n[j] \in Whitespace => n[j] = " "
    /\ \A j \in 1..(Len(n) - 1) : ~(n[j] = " " /\ n[j + 1] = " ")
    /\ n # <<>> => n[1] # " " /\ n[Len(n)] # " "
    /\ LET nn == SelectSeq(n, NonBlank)
           dd == SelectSeq(d, NonBlank)
       IN  Len(nn) = Len(dd) /\ \A j \in 1..Len(nn) : LowerOf(nn[j], dd[j])
    /\ Contains(n, WordUninspected \o <<" ">> \o WordVehicle) <=> PhraseIn(d)

\* C6: count_uninspected_vehicle counts the entries whose normalised
\* description holds "uninspected vehicle", in any casing and with any amount
\* of whitespace, and UNINSPECTED_VEHICLE_2_PLUS is flagged on a readable
\* record if and only if that count is 2 or more.
C6_UninspectedRule ==
    (pc = "shown" /\ ~Unreadable) =>
        /\ count_uninspected_vehicle(
                IF extracted.violations.type = "absent" THEN PyNone
                ELSE extracted.violations) = MatchCount
        /\ "UNINSPECTED_VEHICLE_2_PLUS" \in FlagSet <=> MatchCount >= 2
        /\ \A i \in 1..Len(Entries) :
              NormalisedFrom(normalize(PyStr(EntryText(Entries[i]))), EntryText(Entries[i]))

\* two entries that differ in casing and whitespace are counted and flagged
C6_Witness ==
    /\ pc = "shown"
    /\ ~Unreadable
    /\ Len(Entries) = 2
    /\ EntryText(Entries[1]) = PaddedText
    /\ EntryText(Entries[2]) = OperateSpacedText
    /\ result.flags = <<"UNINSPECTED_VEHICLE_2_PLUS">>

\* C7: the flags of a result are exactly the codes of the rules that triggered,
\* each once, in ascending order, all of the 15-code vocabulary.
C7_FlagsExactSorted ==
    pc = "shown" =>
        /\ FlagSet \subseteq Vocabulary
        /\ \A i \in 1..(Len(result.flags) - 1) :
              Position(result.flags[i]) < Position(result.flags[i + 1])
        /\ "INSUFFICIENT_DATA" \in FlagSet <=> Unreadable
        /\ \A f \in Rules :
              (f = "ACCIDENTS_2_PLUS" => CountDeclared) =>
                  (f \in FlagSet <=> (~Unreadable /\ RuleTriggered(f)))

\* every rule triggered: fourteen flags
C7_Witness == pc = "shown" /\ Len(result.flags) = 14 /\ result.flags[1] = "ACCIDENTS_2_PLUS"

\* C8: the reason of a REJECT of a readable record is the clauses of exactly the
\* triggered rules, in evaluation order, joined with " | ", one per flag.
C8_ReasonClauses ==
    (pc = "shown" /\ ~Unreadable /\ CountDeclared) =>
        LET triggered == TriggeredInOrder
        IN  triggered # <<>> =>
                /\ result.reason = ClausesFrom(triggered, 1)
                /\ Len(triggered) = Len(result.flags)
                /\ \A f \in FlagSet : \E i \in 1..Len(triggered) : triggered[i] = f

\* the clauses stand in evaluation order where the flags stand in sorted order
C8_Witness ==
    /\ pc = "shown"
    /\ result.flags = <<"ACCIDENTS_2_PLUS", "EXPIRED_MEDICAL">>
    /\ result.reason = "Expired medical certificate. | Accident count is 2 (>=2)."

\* a boolean field that is a boolean, absent or null
BoolOrMissing(v) == FieldTrue(v) \/ FieldFalse(v) \/ FieldMissing(v)

\* a record of the schema in which any field may be absent or null
SchemaOrMissing ==
    /\ BoolOrMissing(extracted.unreadable_pdf)
    /\ BoolOrMissing(extracted.medical_cert_expired)
    /\ BoolOrMissing(extracted.missing_cdl_endorsements)
    /\ \/ FieldMissing(extracted.major_indicators)
       \/ /\ extracted.major_indicators.type = "dict"
          /\ \A k \in MajorKeys : BoolOrMissing(extracted.major_indicators.val[k])
    /\ \/ FieldMissing(extracted.accident_count)
       \/ extracted.accident_count.type = "int" /\ extracted.accident_count.val >= 0
    /\ \/ FieldMissing(extracted.violations)
       \/ /\ extracted.violations.type = "list"
          /\ \A i \in 1..Len(extracted.violations.val) :
                /\ extracted.violations.val[i].type = "dict"
                /\ \/ FieldMissing(extracted.violations.val[i].val.description)
                   \/ extracted.violations.val[i].val.description.type = "str"

\* C9: a record of the schema with absent or null fields is always decided,
\* ACCEPT or REJECT, never an exception; an absent or null boolean triggers
\* nothing, an absent or null count is 0, absent or null violations are none,
\* an entry without description matches nothing.
C9_TotalOnMissingData ==
    (pc # "extracted" /\ SchemaOrMissing) =>
        /\ pc = "shown"
        /\ error = "none"
        /\ result.decision \in {"ACCEPT", "REJECT"}
        /\ FieldMissing(extracted.unreadable_pdf) => "INSUFFICIENT_DATA" \notin FlagSet
        /\ ~Unreadable =>
            /\ FieldMissing(extracted.medical_cert_expired) => "EXPIRED_MEDICAL" \notin FlagSet
            /\ FieldMissing(extracted.missing_cdl_endorsements) =>
                  "MISSING_ENDORSEMENTS" \notin FlagSet
            /\ \A f \in DOMAIN KeyOfFlag :
                  FieldMissing(Indicator(KeyOfFlag[f])) => f \notin FlagSet
            /\ AccidentCount(extracted) >= 0
            /\ FieldMissing(extracted.accident_count) =>
                  AccidentCount(extracted) = 0 /\ "ACCIDENTS_2_PLUS" \notin FlagSet
            /\ FieldMissing(extracted.violations) =>
                  "UNINSPECTED_VEHICLE_2_PLUS" \notin FlagSet
            /\ \A i \in 1..Len(Entries) :
                  FieldMissing(Entries[i].val.description) => ~EntryMatches(Entries[i])

\* a record that holds nothing but one entry without description is accepted
C9_Witness ==
    /\ pc = "shown"
    /\ extracted.unreadable_pdf.type = "absent"
    /\ extracted.medical_cert_expired.type = "absent"
    /\ extracted.major_indicators.type = "NoneType"
    /\ extracted.accident_count.type = "NoneType"
    /\ Len(Entries) = 1 /\ Entries[1].type = "dict"
    /\ Entries[1].val.description.type = "NoneType"
    /\ result.decision = "ACCEPT"

\* a boolean field that is neither true nor false
NotBoolean(v) == ~FieldTrue(v) /\ ~FieldFalse(v)

\* a trigger-relevant field is absent, null or no boolean
MissingOrAmbiguous ==
    \/ NotBoolean(extracted.unreadable_pdf)
    \/ NotBoolean(extracted.medical_cert_expired)
    \/ NotBoolean(extracted.missing_cdl_endorsements)
    \/ \E k \in MajorKeys : NotBoolean(Indicator(k))

\* C10 as claimed: a record with an absent, null or non-boolean trigger-relevant
\* field is never accepted.
C10_FailClosed ==
    (pc = "shown" /\ MissingOrAmbiguous) => result.decision = "REJECT"

\* C10 as amended: such a record is rejected if and only if it is unreadable or
\* a rule triggers on an explicit value (a field that is the boolean true, a
\* count of 2 or more); the absent, null or non-boolean field itself is taken
\* as false and triggers nothing.
C10_MissingIsNoTrigger ==
    (pc = "shown" /\ MissingOrAmbiguous /\ CountDeclared) =>
        /\ result.decision = "REJECT" <=> (Unreadable \/ \E f \in Rules : RuleTriggered(f))
        /\ NotBoolean(extracted.unreadable_pdf) => "INSUFFICIENT_DATA" \notin FlagSet
        /\ NotBoolean(extracted.medical_cert_expired) => "EXPIRED_MEDICAL" \notin FlagSet
        /\ NotBoolean(extracted.missing_cdl_endorsements) => "MISSING_ENDORSEMENTS" \notin FlagSet
        /\ \A f \in DOMAIN KeyOfFlag : NotBoolean(Indicator(KeyOfFlag[f])) => f \notin FlagSet

\* a record without unreadable_pdf and major_indicators, its medical field the
\* integer 1, its endorsement field null, is accepted
C10_Witness ==
    /\ pc = "shown"
    /\ extracted.unreadable_pdf.type = "absent"
    /\ extracted.medical_cert_expired.type = "int"
    /\ extracted.missing_cdl_endorsements.type = "NoneType"
    /\ extracted.major_indicators.type = "absent"
    /\ result.decision = "ACCEPT"

====
